---- MODULE Spec2Model ----
(***************************************************************************)
(* The BudgetPlanner component (src/src/components/BudgetPlanner.tsx).     *)
(*                                                                         *)
(* The React state is `income` and `expenses`.  A function component       *)
(* re-runs its body after every state update, so the constants the body    *)
(* computes (totalExpenses, savings, savingsPercentage, chartData) are     *)
(* variables here: they hold what the latest render computed, and the      *)
(* handlers (downloadAsExcel, downloadAsTxt) close over exactly those.     *)
(* An action is one DOM event: its handler followed by the re-render that  *)
(* React performs before the next event is dispatched.                     *)
(*                                                                         *)
(* A JavaScript object with string keys enumerates them in insertion       *)
(* order, so `expenses` is a sequence of (key, value) entries.             *)
(*                                                                         *)
(* Numbers.  income and the expense amounts are integers here (the values  *)
(* Number() yields for the integer strings typed).  savingsPercentage is   *)
(* the result of a floating-point division, so it is a JS number value:    *)
(* NaN, +Infinity, -Infinity, or a finite quotient num/den kept exactly.   *)
(* For the magnitudes of this model the comparisons with 0, 10 and 20 and  *)
(* the two-decimal rounding of the exact quotient agree with IEEE doubles. *)
(* Number.prototype.toLocaleString is modelled for the en-US locale.       *)
(***************************************************************************)
EXTENDS Integers, Sequences, FiniteSets, TLC

VARIABLES
    income,             \* useState<number>(5000)
    expenses,           \* useState({housing, ..., other}): ordered entries
    totalExpenses,      \* render constant, line 41
    savings,            \* render constant, line 42
    savingsPercentage,  \* render constant, line 43 (a JS number value)
    chartData,          \* render constant, lines 45-48
    event,              \* the DOM event handled last
    effects,            \* side effects of the handler run last, in order
    downloadCount,      \* files offered for download since mount
    toastCount          \* toast() calls since mount

vars == <<income, expenses, totalExpenses, savings, savingsPercentage,
          chartData, event, effects, downloadCount, toastCount>>

\* Exports performed in one behaviour.
MaxExports == 2

\* What the user leaves in the income field (e.target.value of a
\* type="number" input is "" when the field is cleared).
IncomeTyped == {"", "1000", "-1000"}

\* What the user leaves in an expense field.
ExpenseTyped == {"", "2500"}

InitialIncome == 5000

InitialExpenses ==
    << [key |-> "housing",        value |-> 1500],
       [key |-> "transportation", value |-> 400],
       [key |-> "food",           value |-> 600],
       [key |-> "utilities",      value |-> 300],
       [key |-> "entertainment",  value |-> 200],
       [key |-> "other",          value |-> 300] >>

-----------------------------------------------------------------------------
(* Strings and numbers *)

DigitChars == "0123456789"
LowerChars == "abcdefghijklmnopqrstuvwxyz"
UpperChars == "ABCDEFGHIJKLMNOPQRSTUVWXYZ"

CharAt(s, i) == SubSeq(s, i, i)

IndexIn(chars, ch) ==
    IF \E i \in 1..Len(chars) : CharAt(chars, i) = ch
    THEN CHOOSE i \in 1..Len(chars) : CharAt(chars, i) = ch
    ELSE 0

\* String.prototype.toUpperCase on a one-character string: a lower-case
\* letter maps to the upper-case letter at the same place of the alphabet,
\* any other character to itself.
UpperOf ==
    [ch \in {CharAt(LowerChars, i) : i \in 1..Len(LowerChars)} |->
        CharAt(UpperChars, IndexIn(LowerChars, ch))]

ToUpperCase(ch) == IF ch \in DOMAIN UpperOf THEN UpperOf[ch] ELSE ch

\* category.charAt(0).toUpperCase() + category.slice(1)
Capitalize(name) ==
    IF name = "" THEN "" ELSE ToUpperCase(CharAt(name, 1)) \o Tail(name)

RECURSIVE ParseDigits(_, _)
ParseDigits(s, acc) ==
    IF s = "" THEN acc
    ELSE ParseDigits(Tail(s), 10 * acc + (IndexIn(DigitChars, Head(s)) - 1))

\* Number(e.target.value) for the value of a type="number" input: the empty
\* string converts to 0, a decimal integer string to its value.
JSNumber(s) ==
    IF s = "" THEN 0
    ELSE IF Head(s) = "-" THEN -ParseDigits(Tail(s), 0)
    ELSE ParseDigits(s, 0)

Abs(n) == IF n < 0 THEN -n ELSE n

RECURSIVE NatStr(_)
NatStr(n) ==
    IF n < 10 THEN CharAt(DigitChars, n + 1)
    ELSE NatStr(n \div 10) \o CharAt(DigitChars, (n % 10) + 1)

Pad(n, width) ==
    LET s == NatStr(n)
    IN  IF Len(s) >= width THEN s
        ELSE SubSeq("000", 1, width - Len(s)) \o s

RECURSIVE Grouped(_)
Grouped(n) ==
    IF n < 1000 THEN NatStr(n)
    ELSE Grouped(n \div 1000) \o "," \o Pad(n % 1000, 3)

\* Number.prototype.toLocaleString() of an integer, en-US.
toLocaleString(n) == IF n < 0 THEN "-" \o Grouped(-n) ELSE Grouped(n)

NaN    == [cls |-> "NaN",       num |-> 0, den |-> 1]
PosInf == [cls |-> "Infinity",  num |-> 0, den |-> 1]
NegInf == [cls |-> "-Infinity", num |-> 0, den |-> 1]
Finite(n, d) == [cls |-> "finite", num |-> n, den |-> d]

\* a / b on numbers holding integers (den of a finite result is positive).
JSDivide(a, b) ==
    IF b = 0
    THEN IF a = 0 THEN NaN ELSE IF a > 0 THEN PosInf ELSE NegInf
    ELSE IF b > 0 THEN Finite(a, b) ELSE Finite(-a, -b)

\* x * k for a positive integer k.
JSTimes(x, k) ==
    IF x.cls = "finite" THEN Finite(x.num * k, x.den) ELSE x

\* x < k for an integer k: false whenever x is NaN.
JSLessNaNTrue(x, k) ==
    IF x.cls = "finite" THEN x.num < k * x.den
    ELSE x.cls \in {"-Infinity", "NaN"}

JSLess(x, k) ==
    IF x.cls = "finite" THEN x.num < k * x.den
    ELSE x.cls = "-Infinity"

\* Number.prototype.toFixed(2): a non-finite value prints as its name; a
\* negative value prints "-" and the rounding of its magnitude; the magnitude
\* is rounded to the nearest hundredth, the larger on a tie.
toFixed2(x) ==
    IF x.cls # "finite" THEN x.cls
    ELSE LET a == Abs(x.num)
             n == (200 * a + x.den) \div (2 * x.den)
         IN  (IF x.num < 0 THEN "-" ELSE "")
                 \o NatStr(n \div 100) \o "." \o Pad(n % 100, 2)

-----------------------------------------------------------------------------
(* Objects *)

Keys(obj) == {obj[i].key : i \in 1..Len(obj)}

HasKey(obj, k) == \E i \in 1..Len(obj) : obj[i].key = k

\* obj[k] for a key the object holds.
Get(obj, k) == obj[CHOOSE i \in 1..Len(obj) : obj[i].key = k].value

\* { ...prev, [category]: value }: a key prev holds keeps its place and takes
\* the new value; a new key is added last.
SpreadAssignReinsert(prev, category, value) ==
    SelectSeq(prev, LAMBDA e : e.key # category)
        \o << [key |-> category, value |-> value] >>

SpreadAssign(prev, category, value) ==
    IF HasKey(prev, category)
    THEN [i \in 1..Len(prev) |->
            IF prev[i].key = category
            THEN [key |-> category, value |-> value]
            ELSE prev[i]]
    ELSE Append(prev, [key |-> category, value |-> value])

handleExpenseChangeNoSpread(prev, category, value) ==
    << [key |-> category, value |-> value] >>

handleExpenseChangeFirst(prev, category, value) ==
    SpreadAssign(SpreadAssign(prev, category, value), prev[1].key, value)

\* The updater handleExpenseChange passes to setExpenses.
handleExpenseChange(prev, category, value) ==
    SpreadAssign(prev, category, value)

-----------------------------------------------------------------------------
(* Render *)

\* Object.values(obj).reduce((sum, expense) => sum + expense, 0)
RECURSIVE Reduce(_, _)
Reduce(obj, sum) ==
    IF obj = << >> THEN sum
    ELSE Reduce(Tail(obj), sum + Head(obj).value)

TotalExpensesSkipFirst(exp) == Reduce(Tail(exp), 0)

TotalExpenses(exp) == Reduce(exp, 0)

Savings(inc, exp) == inc - TotalExpenses(exp)

SavingsPercentage(inc, exp) == JSTimes(JSDivide(Savings(inc, exp), inc), 100)

\* Object.entries(expenses).map(([name, value]) => ({ name: <capitalized>, value }))
ChartData(exp) ==
    [i \in 1..Len(exp) |->
        [name |-> Capitalize(exp[i].key), value |-> exp[i].value]]

MsgExceed ==
    "Your expenses exceed your income. Consider cutting back on non-essential spending."
MsgLess10 ==
    "You're saving less than 10% of your income. Financial experts recommend saving at least 20%."
MsgAim20 ==
    "You're saving a good amount, but aim for 20% to build a strong financial foundation."
MsgGreat ==
    "Great job! You're saving more than 20% of your income, which is excellent for long-term financial health."

\* x <= k, which a tier written with the wrong comparison would use.
JSLessEq(x, k) ==
    IF x.cls = "finite" THEN x.num <= k * x.den
    ELSE x.cls = "-Infinity"

recommendationInclusive ==
    IF JSLess(savingsPercentage, 0) THEN MsgExceed
    ELSE IF JSLessEq(savingsPercentage, 10) THEN MsgLess10
    ELSE IF JSLess(savingsPercentage, 20) THEN MsgAim20
    ELSE MsgGreat

recommendation ==
    IF JSLess(savingsPercentage, 0) THEN MsgExceed
    ELSE IF JSLess(savingsPercentage, 10) THEN MsgLess10
    ELSE IF JSLess(savingsPercentage, 20) THEN MsgAim20
    ELSE MsgGreat

\* The component body run with the new state.
Render(inc, exp) ==
    /\ totalExpenses' = TotalExpenses(exp)
    /\ savings' = Savings(inc, exp)
    /\ savingsPercentage' = SavingsPercentage(inc, exp)
    /\ chartData' = ChartData(exp)

-----------------------------------------------------------------------------
(* Exports *)

NumberCell(n) == [t |-> "n", v |-> n]
StringCell(s) == [t |-> "s", v |-> s]

\* The array downloadAsExcel hands to XLSX.utils.json_to_sheet, one row per
\* element; json_to_sheet writes a number as a cell of type "n" and a string
\* as a cell of type "s".
ExcelRowsSwapped ==
    << [Category |-> "Income", Amount |-> NumberCell(income)] >>
    \o [i \in 1..Len(expenses) |->
            [Category |-> Capitalize(expenses[i].key),
             Amount   |-> NumberCell(expenses[i].value)]]
    \o << [Category |-> "Savings", Amount |-> NumberCell(savings)],
          [Category |-> "Total Expenses", Amount |-> NumberCell(totalExpenses)],
          [Category |-> "Savings Percentage",
           Amount   |-> StringCell(toFixed2(savingsPercentage) \o "%")] >>

ExcelRows ==
    << [Category |-> "Income", Amount |-> NumberCell(income)] >>
    \o [i \in 1..Len(expenses) |->
            [Category |-> Capitalize(expenses[i].key),
             Amount   |-> NumberCell(expenses[i].value)]]
    \o << [Category |-> "Total Expenses", Amount |-> NumberCell(totalExpenses)],
          [Category |-> "Savings", Amount |-> NumberCell(savings)],
          [Category |-> "Savings Percentage",
           Amount   |-> StringCell(toFixed2(savingsPercentage) \o "%")] >>

\* Array.prototype.join
RECURSIVE Join(_, _)
Join(lines, sep) ==
    IF lines = << >> THEN ""
    ELSE IF Len(lines) = 1 THEN lines[1]
    ELSE lines[1] \o sep \o Join(Tail(lines), sep)

ExpenseLines ==
    [i \in 1..Len(expenses) |->
        Capitalize(expenses[i].key) \o ": $" \o toLocaleString(expenses[i].value)]

\* The template literal of downloadAsTxt; it opens with a line break.
budgetText ==
    "\nBUDGET SUMMARY\n==============\n\nIncome: $" \o toLocaleString(income)
    \o "\n\nEXPENSES:\n" \o Join(ExpenseLines, "\n")
    \o "\n\nTotal Expenses: $" \o toLocaleString(totalExpenses)
    \o "\nSavings: $" \o toLocaleString(savings)
    \o "\nSavings Percentage: " \o toFixed2(savingsPercentage) \o "%"
    \o "\n\nRecommendation: " \o recommendation \o "\n"

Download(filename, rows, text) ==
    [kind |-> "download", filename |-> filename, rows |-> rows, text |-> text,
     title |-> "", description |-> ""]

Toast(title, description) ==
    [kind |-> "toast", filename |-> "", rows |-> << >>, text |-> "",
     title |-> title, description |-> description]

ToastsIn(fx) == SelectSeq(fx, LAMBDA e : e.kind = "toast")
DownloadsIn(fx) == SelectSeq(fx, LAMBDA e : e.kind = "download")

\* What downloadAsExcel does, in order: XLSX.writeFile, then toast.
downloadAsExcelEffects ==
    << Download("my_budget_plan.xlsx", ExcelRows, ""),
       Toast("Budget Downloaded", "Your budget has been saved as an Excel file") >>

downloadAsTxtEffectsToastFirst ==
    << Toast("Budget Downloaded", "Your budget has been saved as a text file"),
       Download("my_budget_plan.txt", << >>, budgetText) >>

\* What downloadAsTxt does, in order: element.click(), then toast.
downloadAsTxtEffects ==
    << Download("my_budget_plan.txt", << >>, budgetText),
       Toast("Budget Downloaded", "Your budget has been saved as a text file") >>

-----------------------------------------------------------------------------
(* The component *)

Init ==
    /\ income = InitialIncome
    /\ expenses = InitialExpenses
    /\ totalExpenses = TotalExpenses(InitialExpenses)
    /\ savings = Savings(InitialIncome, InitialExpenses)
    /\ savingsPercentage = SavingsPercentage(InitialIncome, InitialExpenses)
    /\ chartData = ChartData(InitialExpenses)
    /\ event = [type |-> "mount", target |-> "", value |-> ""]
    /\ effects = << >>
    /\ downloadCount = 0
    /\ toastCount = 0

\* onChange of the income input: setIncome(Number(e.target.value)).
IncomeChange ==
    \E typed \in IncomeTyped :
        /\ event' = [type |-> "change", target |-> "income", value |-> typed]
        /\ income' = JSNumber(typed)
        /\ Render(JSNumber(typed), expenses)
        /\ effects' = << >>
        /\ UNCHANGED <<expenses, downloadCount, toastCount>>

\* onChange of one of the expense inputs rendered from Object.entries(expenses):
\* handleExpenseChange(category, Number(e.target.value)).
ExpenseChange ==
    \E i \in 1..Len(expenses), typed \in ExpenseTyped :
        LET category == expenses[i].key
            next == handleExpenseChange(expenses, category, JSNumber(typed))
        IN  /\ event' = [type |-> "change", target |-> category, value |-> typed]
            /\ expenses' = next
            /\ Render(income, next)
            /\ effects' = << >>
            /\ UNCHANGED <<income, downloadCount, toastCount>>

\* onClick of "Download as Excel".
downloadAsExcel ==
    /\ downloadCount < MaxExports
    /\ event' = [type |-> "click", target |-> "excel", value |-> ""]
    /\ effects' = downloadAsExcelEffects
    /\ downloadCount' = downloadCount + Len(DownloadsIn(downloadAsExcelEffects))
    /\ toastCount' = toastCount + Len(ToastsIn(downloadAsExcelEffects))
    /\ UNCHANGED <<income, expenses, totalExpenses, savings,
                   savingsPercentage, chartData>>

\* onClick of "Download as Text".
downloadAsTxt ==
    /\ downloadCount < MaxExports
    /\ event' = [type |-> "click", target |-> "txt", value |-> ""]
    /\ effects' = downloadAsTxtEffects
    /\ downloadCount' = downloadCount + Len(DownloadsIn(downloadAsTxtEffects))
    /\ toastCount' = toastCount + Len(ToastsIn(downloadAsTxtEffects))
    /\ UNCHANGED <<income, expenses, totalExpenses, savings,
                   savingsPercentage, chartData>>

Next ==
    \/ IncomeChange
    \/ ExpenseChange
    \/ downloadAsExcel
    \/ downloadAsTxt

Spec == Init /\ [][Next]_vars

-----------------------------------------------------------------------------
(* Properties *)

Categories ==
    {"housing", "transportation", "food", "utilities", "entertainment", "other"}

\* The sum of the six current entries, written out entry by entry.
SumOfSix ==
    Get(expenses, "housing") + Get(expenses, "transportation")
        + Get(expenses, "food") + Get(expenses, "utilities")
        + Get(expenses, "entertainment") + Get(expenses, "other")

IsExpenseEdit(e) == e.type = "change" /\ e.target # "income"

StartsWith(text, prefix) ==
    Len(text) >= Len(prefix) /\ SubSeq(text, 1, Len(prefix)) = prefix

EndsWith(text, suffix) ==
    Len(text) >= Len(suffix)
        /\ SubSeq(text, Len(text) - Len(suffix) + 1, Len(text)) = suffix

IsFile(e, filename) == e.kind = "download" /\ e.filename = filename

\* C1: an expense edit for category c carrying value v sets entry c to v and
\* leaves the other five entries and the income as they were.
C1_ExpenseEditFrame ==
    [][IsExpenseEdit(event') =>
          /\ HasKey(expenses', event'.target)
          /\ Get(expenses', event'.target) = JSNumber(event'.value)
          /\ \A k \in Keys(expenses) \ {event'.target} :
                HasKey(expenses', k) /\ Get(expenses', k) = Get(expenses, k)
          /\ Keys(expenses') = Keys(expenses)
          /\ income' = income]_vars

\* C1 witness: the food field was edited to 2500 while housing and the income
\* still hold their initial values.
C1_Witness ==
    /\ IsExpenseEdit(event) /\ event.target = "food"
    /\ Get(expenses, "food") = 2500
    /\ Get(expenses, "housing") = 1500
    /\ income = InitialIncome

\* C2: after any sequence of edits the derived values are those of the latest
\* state: totalExpenses is the sum of the six current entries and savings is
\* income minus that sum, negative results included.
C2_DerivedFromLatest ==
    /\ totalExpenses = SumOfSix
    /\ savings = income - SumOfSix

\* C2 witness: both the income and the expenses were edited and the savings
\* are negative.
C2_Witness ==
    /\ income # InitialIncome
    /\ expenses # InitialExpenses
    /\ event.type = "change"
    /\ savings < 0

\* C3: for a positive income the recommendation is the message of the first
\* matching tier of: percentage < 0, < 10, < 20, otherwise; exactly 0 gives the
\* "less than 10%" message, exactly 10 the "aim for 20%" message and exactly 20
\* the "great job" message.
C3_RecommendationTiers ==
    LET s == income - SumOfSix
    IN  income > 0 =>
          /\ recommendation =
                IF 100 * s < 0 THEN MsgExceed
                ELSE IF 100 * s < 10 * income THEN MsgLess10
                ELSE IF 100 * s < 20 * income THEN MsgAim20
                ELSE MsgGreat
          /\ (s = 0 => recommendation = MsgLess10)
          /\ (100 * s = 10 * income => recommendation = MsgAim20)
          /\ (100 * s = 20 * income => recommendation = MsgGreat)

\* C3 witness: a positive income of which exactly 10% is saved, with the
\* "aim for 20%" message.
C3_Witness ==
    /\ income > 0
    /\ 100 * (income - SumOfSix) = 10 * income
    /\ recommendation = MsgAim20

\* C4: in every reachable state the expenses hold exactly the six fixed keys,
\* each once and each with a number.
C4_SixKeys ==
    /\ Len(expenses) = 6
    /\ Keys(expenses) = Categories
    /\ \A i \in 1..Len(expenses) : expenses[i].value \in Int

\* C4 witness: the income and every one of the six expenses were edited and
\* an export was made.
C4_Witness ==
    /\ income # InitialIncome
    /\ Len(expenses) = 6
    /\ \A i \in 1..6 : expenses[i].value # InitialExpenses[i].value
    /\ downloadCount > 0

\* C5: chartData is six (label, value) pairs in the order housing,
\* transportation, food, utilities, entertainment, other, whatever the order of
\* the edits, each label the capitalized category and each value its current
\* amount; the values sum to totalExpenses.
C5_ChartData ==
    /\ chartData =
         << [name |-> "Housing",        value |-> Get(expenses, "housing")],
            [name |-> "Transportation", value |-> Get(expenses, "transportation")],
            [name |-> "Food",           value |-> Get(expenses, "food")],
            [name |-> "Utilities",      value |-> Get(expenses, "utilities")],
            [name |-> "Entertainment",  value |-> Get(expenses, "entertainment")],
            [name |-> "Other",          value |-> Get(expenses, "other")] >>
    /\ Reduce(chartData, 0) = totalExpenses

\* C5 witness: the last category (other) was edited before the first
\* (housing), which was edited last.
C5_Witness ==
    /\ IsExpenseEdit(event) /\ event.target = "housing"
    /\ Get(expenses, "housing") # 1500
    /\ Get(expenses, "other") # 300

\* C6: the exported text begins, with nothing before it, with the header
\* block "BUDGET SUMMARY", "==============", an empty line and "Income: $"
\* followed by the grouped income.
C6_TextBeginsWithHeader ==
    \A i \in 1..Len(effects) :
        IsFile(effects[i], "my_budget_plan.txt") =>
            StartsWith(effects[i].text,
                       "BUDGET SUMMARY\n==============\n\nIncome: $"
                           \o toLocaleString(income))

\* C7: the spreadsheet export builds exactly ten rows, in order: Income, the
\* six categories capitalized in the fixed order, Total Expenses, Savings,
\* and Savings Percentage as a text cell ending in "%", all from the state at
\* the moment of the export.
C7_ExcelRows ==
    \A i \in 1..Len(effects) :
        IsFile(effects[i], "my_budget_plan.xlsx") =>
            LET rows == effects[i].rows
            IN  /\ Len(rows) = 10
                /\ SubSeq(rows, 1, 9) =
                     << [Category |-> "Income", Amount |-> NumberCell(income)],
                        [Category |-> "Housing",
                         Amount |-> NumberCell(Get(expenses, "housing"))],
                        [Category |-> "Transportation",
                         Amount |-> NumberCell(Get(expenses, "transportation"))],
                        [Category |-> "Food",
                         Amount |-> NumberCell(Get(expenses, "food"))],
                        [Category |-> "Utilities",
                         Amount |-> NumberCell(Get(expenses, "utilities"))],
                        [Category |-> "Entertainment",
                         Amount |-> NumberCell(Get(expenses, "entertainment"))],
                        [Category |-> "Other",
                         Amount |-> NumberCell(Get(expenses, "other"))],
                        [Category |-> "Total Expenses",
                         Amount |-> NumberCell(SumOfSix)],
                        [Category |-> "Savings",
                         Amount |-> NumberCell(income - SumOfSix)] >>
                /\ rows[10].Category = "Savings Percentage"
                /\ rows[10].Amount.t = "s"
                /\ EndsWith(rows[10].Amount.v, "%")

\* C7 witness: a spreadsheet was exported after the income and the expenses
\* had been edited.
C7_Witness ==
    /\ income # InitialIncome
    /\ expenses # InitialExpenses
    /\ \E i \in 1..Len(effects) : IsFile(effects[i], "my_budget_plan.xlsx")

\* C8: after edits made through the input fields the income is within
\* [1000, 100000] and each expense within [0, 50000].
C8_WithinBounds ==
    /\ income \in 1000..100000
    /\ \A i \in 1..Len(expenses) : expenses[i].value \in 0..50000

\* C9: an export emits exactly one notification, titled "Budget Downloaded",
\* after the download was triggered, and leaves income and expenses unchanged;
\* an income or expense edit emits no notification.
C9_OneToastPerExport ==
    [][/\ event'.type = "click" =>
            /\ toastCount' = toastCount + 1
            /\ downloadCount' = downloadCount + 1
            /\ Len(effects') = 2
            /\ effects'[1].kind = "download"
            /\ effects'[2].kind = "toast"
            /\ effects'[2].title = "Budget Downloaded"
            /\ income' = income
            /\ expenses' = expenses
       /\ event'.type = "change" =>
            /\ toastCount' = toastCount
            /\ ToastsIn(effects') = << >>]_vars

\* C9 witness: both exports were made, each followed by its notification.
C9_Witness ==
    /\ event.type = "click"
    /\ downloadCount = 2
    /\ toastCount = 2
    /\ Len(effects) = 2
    /\ effects[2].kind = "toast"

====
